---- MODULE Spec2Model ----
(***************************************************************************)
(* Model of src/energy_tracker.py: the estimator tables, the tip advisor   *)
(* and the session (profile + consumption log) of the Streamlit script.    *)
(*                                                                         *)
(* Python floats are IEEE-754 binary64.  They are modelled exactly: a      *)
(* float is a record [sign, mant, exp] standing for                        *)
(*      (-1)^sign * mant * 2^exp                                           *)
(* with mant a 53-bit natural number (or zero), and every arithmetic       *)
(* operation rounds to nearest, ties to even, as the hardware does.  The   *)
(* mantissa does not fit TLC's 32-bit integers, so naturals are kept as    *)
(* little-endian sequences of 15-bit limbs.  Exponent overflow, subnormals *)
(* infinities and NaN cannot arise from the magnitudes the program handles *)
(* (between 2^-60 and 2^20) and are not modelled.                          *)
(***************************************************************************)
EXTENDS Integers, Sequences, FiniteSets, TLC

----------------------------------------------------------------------------
(* Natural numbers of arbitrary size: little-endian sequences of limbs.    *)

LimbBits == 3 * 5
Base == 2^LimbBits

RECURSIVE BNorm(_)
BNorm(a) == IF a = <<>> THEN <<>>
            ELSE IF a[Len(a)] = 0 THEN BNorm(SubSeq(a, 1, Len(a) - 1))
            ELSE a

RECURSIVE BFromInt(_)
BFromInt(n) == IF n = 0 THEN <<>> ELSE <<n % Base>> \o BFromInt(n \div Base)

RECURSIVE BToInt(_)
BToInt(a) == IF a = <<>> THEN 0 ELSE a[1] + Base * BToInt(Tail(a))

Min2(a, b) == IF a <= b THEN a ELSE b

BLimb(a, i) == IF i <= Len(a) THEN a[i] ELSE 0

RECURSIVE BAddC(_, _, _, _)
BAddC(a, b, i, carry) ==
    IF i > Len(a) /\ i > Len(b)
    THEN IF carry = 0 THEN <<>> ELSE <<carry>>
    ELSE LET s == BLimb(a, i) + BLimb(b, i) + carry
         IN  <<s % Base>> \o BAddC(a, b, i + 1, s \div Base)

BAdd(a, b) == BAddC(a, b, 1, 0)

RECURSIVE BSubC(_, _, _, _)
BSubC(a, b, i, borrow) ==
    IF i > Len(a) THEN <<>>
    ELSE LET s == BLimb(a, i) - BLimb(b, i) - borrow
         IN  IF s < 0 THEN <<s + Base>> \o BSubC(a, b, i + 1, 1)
                      ELSE <<s>> \o BSubC(a, b, i + 1, 0)

\* a - b for a >= b
BSub(a, b) == BNorm(BSubC(a, b, 1, 0))

RECURSIVE BCmpAt(_, _, _)
BCmpAt(a, b, i) ==
    IF i = 0 THEN 0
    ELSE IF a[i] > b[i] THEN 1
    ELSE IF a[i] < b[i] THEN -1
    ELSE BCmpAt(a, b, i - 1)

\* -1, 0, 1 as a < b, a = b, a > b (both normalised)
BCmp(a, b) == IF Len(a) > Len(b) THEN 1
              ELSE IF Len(a) < Len(b) THEN -1
              ELSE BCmpAt(a, b, Len(a))

RECURSIVE BMulC(_, _, _, _)
BMulC(a, k, i, carry) ==
    IF i > Len(a) THEN BFromInt(carry)
    ELSE LET s == a[i] * k + carry
         IN  <<s % Base>> \o BMulC(a, k, i + 1, s \div Base)

\* a * k for 0 <= k < Base
BMulS(a, k) == BNorm(BMulC(a, k, 1, 0))

RECURSIVE BDivC(_, _, _, _)
BDivC(a, k, i, rem) ==
    IF i = 0 THEN [q |-> <<>>, r |-> rem]
    ELSE LET cur  == rem * Base + a[i]
             rest == BDivC(a, k, i - 1, cur % k)
         IN  [q |-> rest.q \o <<cur \div k>>, r |-> rest.r]

\* quotient and remainder of a by k, 0 < k <= Base
BDivS(a, k) == LET d == BDivC(a, k, Len(a), 0)
               IN  [q |-> BNorm(d.q), r |-> d.r]

Zeros(n) == [i \in 1..n |-> 0]

\* a * 2^n
BShl(a, n) == IF a = <<>> THEN <<>>
              ELSE BMulS(Zeros(n \div LimbBits) \o a, 2^(n % LimbBits))

\* floor(a / 2^n)
BShr(a, n) == IF n \div LimbBits >= Len(a) THEN <<>>
              ELSE BDivS(SubSeq(a, (n \div LimbBits) + 1, Len(a)),
                         2^(n % LimbBits)).q

RECURSIVE IntBitLen(_)
IntBitLen(n) == IF n = 0 THEN 0 ELSE 1 + IntBitLen(n \div 2)

BBitLen(a) == IF a = <<>> THEN 0
              ELSE LimbBits * (Len(a) - 1) + IntBitLen(a[Len(a)])

BIsOdd(a) == a # <<>> /\ a[1] % 2 = 1

\* whether a mod 2^n is not zero
BLowNonZero(a, n) ==
    \/ \E i \in 1..Min2(n \div LimbBits, Len(a)) : a[i] # 0
    \/ /\ (n \div LimbBits) + 1 <= Len(a)
       /\ a[(n \div LimbBits) + 1] % (2^(n % LimbBits)) # 0

----------------------------------------------------------------------------
(* IEEE-754 binary64 values and their correctly rounded operations.        *)

\* 52 stored bits and the implicit leading one
MantBits == 52 + 1

FZero == [sign |-> 0, mant |-> <<>>, exp |-> 0]

FIsZero(x) == x.mant = <<>>

\* q has MantBits bits, or MantBits + 1 when rounding up carried out of the top
FPack(sign, q, e) ==
    IF BBitLen(q) > MantBits
    THEN [sign |-> sign, mant |-> BDivS(q, 2).q, exp |-> e + 1]
    ELSE [sign |-> sign, mant |-> q, exp |-> e]

\* h = [q, r]: the kept bits q and the first dropped bit r; rest tells whether
\* anything non-zero follows it.  Round to nearest, ties to even.
FRoundHalf(sign, h, rest, e) ==
    IF h.r = 1 /\ (rest \/ BIsOdd(h.q))
    THEN FPack(sign, BAdd(h.q, <<1>>), e)
    ELSE [sign |-> sign, mant |-> h.q, exp |-> e]

\* M has L bits
FRoundLen(sign, M, e, sticky, L) ==
    IF L <= MantBits
    THEN [sign |-> sign, mant |-> BShl(M, MantBits - L),
          exp |-> e - (MantBits - L)]
    ELSE FRoundHalf(sign, BDivS(BShr(M, L - MantBits - 1), 2),
                    sticky \/ BLowNonZero(M, L - MantBits - 1),
                    e + (L - MantBits))

\* The float nearest to (-1)^sign * (M + f) * 2^e, where f = 0 when sticky
\* is FALSE and 0 < f < 1 otherwise (then M has at least MantBits + 2 bits).
FRound(sign, M, e, sticky) ==
    IF M = <<>> THEN FZero ELSE FRoundLen(sign, M, e, sticky, BBitLen(M))

\* int -> float (exact for |n| < 2^31)
FromInt(n) ==
    FRound(IF n < 0 THEN 1 ELSE 0, BFromInt(IF n < 0 THEN -n ELSE n), 0, FALSE)

\* dv = [q, r]: quotient and remainder of a division of M * 2^-e
FRoundDiv(sign, dv, e) == FRound(sign, dv.q, e, dv.r # 0)

\* The float a decimal literal denotes: n / 10^d correctly rounded
\* (n >= 0, 10^d <= Base).
Lit(n, d) == FRoundDiv(0, BDivS(BShl(BFromInt(n), 5 * LimbBits), 10^d),
                       -(5 * LimbBits))

FNeg(x) == IF FIsZero(x) THEN x ELSE [x EXCEPT !.sign = 1 - x.sign]

\* Mx and My at the common exponent e; c compares them
FAddAligned(sx, sy, Mx, My, e, c) ==
    FRound(IF sx = sy \/ c >= 0 THEN sx ELSE sy,
           IF sx = sy THEN BAdd(Mx, My)
           ELSE IF c >= 0 THEN BSub(Mx, My) ELSE BSub(My, Mx),
           e, FALSE)

FAddShifted(sx, sy, Mx, My, e) ==
    FAddAligned(sx, sy, Mx, My, e, BCmp(Mx, My))

\* x + y
FAdd(x, y) ==
    IF FIsZero(x) THEN y
    ELSE IF FIsZero(y) THEN x
    ELSE FAddShifted(x.sign, y.sign,
                     BShl(x.mant, x.exp - Min2(x.exp, y.exp)),
                     BShl(y.mant, y.exp - Min2(x.exp, y.exp)),
                     Min2(x.exp, y.exp))

\* x - y
FSub(x, y) == FAdd(x, FNeg(y))

\* k * x for an int 0 <= k < Base (the int converts to float exactly)
FMulInt(k, x) == FRound(x.sign, BMulS(x.mant, k), x.exp, FALSE)

\* x / k for an int 0 < k < Base
FDivInt(x, k) ==
    FRoundDiv(x.sign, BDivS(BShl(x.mant, 2 * LimbBits), k),
              x.exp - 2 * LimbBits)

\* x > y
FGt(x, y) ==
    IF FIsZero(x) THEN (~FIsZero(y) /\ y.sign = 1)
    ELSE IF FIsZero(y) THEN x.sign = 0
    ELSE IF x.sign # y.sign THEN x.sign = 0
    ELSE IF x.exp # y.exp THEN (x.exp > y.exp) = (x.sign = 0)
    ELSE IF x.sign = 0 THEN BCmp(x.mant, y.mant) > 0
    ELSE BCmp(y.mant, x.mant) > 0

\* h = [q, r] as in FRoundHalf, for a non-negative value: the nearest integer
FmtHalf(h, rest) ==
    BToInt(h.q) + (IF h.r = 1 /\ (rest \/ BIsOdd(h.q)) THEN 1 ELSE 0)

\* the nearest integer, ties to even, to M * 2^e
FmtScaled(M, e) ==
    IF e >= 0 THEN BToInt(BShl(M, e))
    ELSE FmtHalf(BDivS(BShr(M, -e - 1), 2), BLowNonZero(M, -e - 1))

\* f"{x:.1f}" read as a count of tenths: x * 10 rounded to the nearest
\* integer, ties to even, computed on the exact binary value
Fmt1(x) == (IF x.sign = 1 THEN -1 ELSE 1) * FmtScaled(BMulS(x.mant, 10), x.exp)

\* f"{x:.0f}" read as an integer
Fmt0(x) == (IF x.sign = 1 THEN -1 ELSE 1) * FmtScaled(x.mant, x.exp)

----------------------------------------------------------------------------
(* Estimation tables, estimator and tip advisor (pure functions).          *)

\* dict.get(key, default)
dict_get(d, key, default) == IF key \in DOMAIN d THEN d[key] ELSE default

\* the multiplier n of each entry "n * 0.4 + n * 0.8" of energy_map
energy_map_rooms ==
    ("1bhk" :> 2) @@ ("2bhk" :> 3) @@ ("3bhk" :> 4) @@ ("4bhk" :> 5)

\* energy_map of calculate_base_energy, each value computed as written
energy_map ==
    [k \in DOMAIN energy_map_rooms |->
        FAdd(FMulInt(energy_map_rooms[k], Lit(4, 1)),
             FMulInt(energy_map_rooms[k], Lit(8, 1)))]

\* energy_map.get(facility_type, 0); the int 0 is kept as the float zero
calculate_base_energy(facility_type) ==
    dict_get(energy_map, facility_type, FZero)

\* the decimal literals of appliance_consumption, in tenths
appliance_literals ==
    ("AC" :> 30) @@ ("Refrigerator" :> 15) @@ ("Washing Machine" :> 20) @@
    ("Dishwasher" :> 18) @@ ("Water Heater" :> 25) @@ ("Microwave" :> 12) @@
    ("TV" :> 5) @@ ("Laptop" :> 3)

appliance_consumption ==
    [k \in DOMAIN appliance_literals |-> Lit(appliance_literals[k], 1)]

\* the for loop of calculate_appliance_energy from position i on:
\* total += appliance_consumption.get(appliance, 0)
RECURSIVE appliance_loop(_, _, _)
appliance_loop(appliances, i, total) ==
    IF i > Len(appliances) THEN total
    ELSE appliance_loop(appliances, i + 1,
             FAdd(total, dict_get(appliance_consumption, appliances[i], FZero)))

\* the loop starting one position late
calculate_appliance_energy_skip_first(appliances) ==
    appliance_loop(appliances, 2, FZero)

calculate_appliance_energy(appliances) == appliance_loop(appliances, 1, FZero)

\* The three messages, named by their first word:
\*   "High"     - "High consumption! Consider using AC efficiently, ..."
\*   "Moderate" - "Moderate consumption. Try using natural light ..."
\*   "Great"    - "Great! You're using energy efficiently. ..."
\* the lower threshold read as "at least 6"
get_energy_tips_at_least(total_consumption) ==
    IF FGt(total_consumption, FromInt(10)) THEN "High"
    ELSE IF ~FGt(FromInt(6), total_consumption) THEN "Moderate"
    ELSE "Great"

get_energy_tips(total_consumption) ==
    IF FGt(total_consumption, FromInt(10)) THEN "High"
    ELSE IF FGt(total_consumption, FromInt(6)) THEN "Moderate"
    ELSE "Great"

----------------------------------------------------------------------------
(* The pandas and plotly calls of the script.                              *)

\* pd.DataFrame(list of dicts): rows in list order under a 0-based index
DataFrame(records) ==
    [i \in 1..Len(records) |->
        [index |-> i - 1, date |-> records[i].date,
         estimated |-> records[i].estimated, actual |-> records[i].actual,
         difference |-> records[i].difference]]

RecentN == 10

\* the first n rows instead of the last n
df_head(df, n) == IF Len(df) <= n THEN df ELSE SubSeq(df, 1, n)

\* df.tail(n)
df_tail(df, n) ==
    IF Len(df) <= n THEN df ELSE SubSeq(df, Len(df) - n + 1, Len(df))

Reverse(s) == [i \in 1..Len(s) |-> s[Len(s) + 1 - i]]

\* one step of insertion sort by date: x goes after the rows not later than it
RECURSIVE insert_by_date(_, _)
insert_by_date(sorted, x) ==
    IF sorted = <<>> THEN <<x>>
    ELSE IF sorted[Len(sorted)].date <= x.date THEN Append(sorted, x)
    ELSE Append(insert_by_date(SubSeq(sorted, 1, Len(sorted) - 1), x),
                sorted[Len(sorted)])

\* argsort(kind='quicksort') of at most 16 items is an insertion sort
RECURSIVE argsort_by_date(_)
argsort_by_date(rows) ==
    IF rows = <<>> THEN <<>>
    ELSE insert_by_date(argsort_by_date(SubSeq(rows, 1, Len(rows) - 1)),
                        rows[Len(rows)])

\* df.sort_values('date', ascending=False): the rows are reversed, sorted
\* ascending and the result reversed
sort_values_date_desc(df) == Reverse(argsort_by_date(Reverse(df)))

\* px.line(df, x='date', y=['estimated', 'actual']): one point per row of df,
\* the points joined in row order
px_line(df) ==
    [i \in 1..Len(df) |->
        [date |-> df[i].date, estimated |-> df[i].estimated,
         actual |-> df[i].actual]]

column_actual(df) == [i \in 1..Len(df) |-> df[i].actual]

RECURSIVE sum_from(_, _, _, _)
sum_from(a, i, step, res) ==
    IF i > Len(a) THEN res ELSE sum_from(a, i + step, step, FAdd(res, a[i]))

\* adjacent pairs added: <<r1 + r2, r3 + r4, ...>>
pair_sums(r) == [i \in 1..(Len(r) \div 2) |-> FAdd(r[2 * i - 1], r[2 * i])]

\* the 8 interleaved partial sums over the first `full` values, as a tree
block_sum(a, full) ==
    pair_sums(pair_sums(pair_sums(
        [j \in 1..8 |-> sum_from(SubSeq(a, 1, full), j + 8, 8, a[j])])))[1]

\* numpy's sum of a float64 column: left to right below 8 values, otherwise
\* 8 interleaved partial sums added as a tree, then the remainder
np_sum(a) ==
    sum_from(a, (Len(a) - (Len(a) % 8)) + 1, 1,
             IF Len(a) < 8 THEN FZero
             ELSE block_sum(a, Len(a) - (Len(a) % 8)))

\* Series.mean()
series_mean(a) == FDivInt(np_sum(a), Len(a))

RECURSIVE series_max(_)
series_max(a) ==
    IF Len(a) = 1 THEN a[1]
    ELSE LET m == series_max(SubSeq(a, 1, Len(a) - 1))
         IN  IF FGt(a[Len(a)], m) THEN a[Len(a)] ELSE m

RECURSIVE series_min(_)
series_min(a) ==
    IF Len(a) = 1 THEN a[1]
    ELSE LET m == series_min(SubSeq(a, 1, Len(a) - 1))
         IN  IF FGt(m, a[Len(a)]) THEN a[Len(a)] ELSE m

----------------------------------------------------------------------------
(* The session: st.session_state and what one run of the script renders.   *)

VARIABLES
    user_profile,       \* st.session_state.user_profile: <<>> is the empty dict
    daily_consumption,  \* st.session_state.daily_consumption: list of entries
    screen,             \* what the last run of the script rendered
    args,               \* the call under test when a function is run alone
    ret                 \* <<>> before it returns, <<value>> after

vars == <<user_profile, daily_consumption, screen, args, ret>>

\* Python truth value of the dict
profile_saved(profile) == DOMAIN profile # {}

DaysPerMonth == 30
RatePerKWh == 5

\* lines 135-137: base, appliance and total energy of a size and a selection
estimate_of(base_energy, appliance_energy) ==
    [base_energy |-> base_energy, appliance_energy |-> appliance_energy,
     total_energy |-> FAdd(base_energy, appliance_energy)]

estimate(facility, appliances) ==
    estimate_of(calculate_base_energy(facility),
                calculate_appliance_energy(appliances))

\* the cost of a week in place of a month
monthly_cost_of_week(total_energy) == FMulInt(RatePerKWh, FMulInt(7, total_energy))

\* line 152: total_energy * 30 * 5
monthly_cost_of(total_energy) ==
    FMulInt(RatePerKWh, FMulInt(DaysPerMonth, total_energy))

\* the decimal literals of the second, inline table (appliance breakdown)
breakdown_literals ==
    ("AC" :> 30) @@ ("Refrigerator" :> 15) @@ ("Washing Machine" :> 20) @@
    ("Dishwasher" :> 18) @@ ("Water Heater" :> 25) @@ ("Microwave" :> 12) @@
    ("TV" :> 5) @@ ("Laptop" :> 3)

breakdown_consumption ==
    [k \in DOMAIN breakdown_literals |-> Lit(breakdown_literals[k], 1)]

appliance_breakdown(appliances) ==
    [i \in 1..Len(appliances) |->
        [Appliance |-> appliances[i],
         Consumption |-> dict_get(breakdown_consumption, appliances[i], FZero)]]

series_stats(a) ==
    [avg_consumption |-> series_mean(a), max_consumption |-> series_max(a),
     min_consumption |-> series_min(a)]

\* the statistics shown from the first entry on
statistics_from_first(df) ==
    IF Len(df) > 0 THEN << series_stats(column_actual(df)) >> ELSE <<>>

\* the statistics block: computed only when len(df) > 1
statistics(df) ==
    IF Len(df) > 1 THEN << series_stats(column_actual(df)) >> ELSE <<>>

\* nothing but the "please fill in your profile" message
info_screen ==
    [main |-> FALSE, base_energy |-> FZero, appliance_energy |-> FZero,
     total_energy |-> FZero, monthly_cost |-> FZero, tip |-> "",
     chart |-> <<>>, recent_df |-> <<>>, stats |-> <<>>, pie |-> <<>>]

\* the page for the estimate e of the profile and the frame df of the log
main_screen(profile, e, df) ==
    [main |-> TRUE,
     base_energy |-> e.base_energy,
     appliance_energy |-> e.appliance_energy,
     total_energy |-> e.total_energy,
     monthly_cost |-> monthly_cost_of(e.total_energy),
     tip |-> get_energy_tips(e.total_energy),
     chart |-> IF df # <<>> THEN px_line(df) ELSE <<>>,
     recent_df |-> IF df # <<>>
                   THEN sort_values_date_desc(df_tail(df, RecentN))
                   ELSE <<>>,
     stats |-> IF df # <<>> THEN statistics(df) ELSE <<>>,
     pie |-> appliance_breakdown(profile.appliances)]

\* the main content area for a saved profile and the log as it stands when
\* the left column is drawn (after the Add Entry handler of the same run)
main_content(profile, log) ==
    main_screen(profile, estimate(profile.facility, profile.appliances),
                DataFrame(log))

render(profile, log) ==
    IF profile_saved(profile) THEN main_content(profile, log) ELSE info_screen

\* the difference taken the other way round
new_entry_swapped(today, total_energy, actual_consumption) ==
    [date |-> today, estimated |-> total_energy, actual |-> actual_consumption,
     difference |-> FSub(total_energy, actual_consumption)]

\* the entry the Add Entry handler builds
new_entry(today, total_energy, actual_consumption) ==
    [date |-> today, estimated |-> total_energy, actual |-> actual_consumption,
     difference |-> FSub(actual_consumption, total_energy)]

\* st.number_input(..., value=total_energy): the default when the user leaves
\* the widget alone (typed = <<>>), else the decimal typed, in tenths
number_input(typed, total_energy) ==
    IF typed = <<>> THEN total_energy ELSE Lit(typed[1], 1)

MaxLog == 3

\* a profile without appliances is not stored: the session profile is reset
SaveProfileOrReset(facility, appliances) ==
    /\ user_profile' = IF appliances = <<>> THEN <<>>
                       ELSE [name |-> "", age |-> 25, city |-> "", area |-> "",
                             flat_type |-> "Flat", facility |-> facility,
                             appliances |-> appliances]
    /\ screen' = render(user_profile', daily_consumption)
    /\ UNCHANGED <<daily_consumption, args, ret>>

\* A run with the form submitted: the profile is replaced, then the page drawn
SaveProfile(facility, appliances) ==
    /\ user_profile' = [name |-> "", age |-> 25, city |-> "", area |-> "",
                        flat_type |-> "Flat", facility |-> facility,
                        appliances |-> appliances]
    /\ screen' = render(user_profile', daily_consumption)
    /\ UNCHANGED <<daily_consumption, args, ret>>

\* A run with the Add Entry button pressed; the button exists only in the
\* main content area
\* one entry per date: an entry of the same date is replaced
add_entry_handler_by_date(log, today, typed, total_energy) ==
    Append(SelectSeq(log, LAMBDA e : e.date # today),
           new_entry(today, total_energy, number_input(typed, total_energy)))

add_entry_handler(log, today, typed, total_energy) ==
    Append(log, new_entry(today, total_energy,
                          number_input(typed, total_energy)))

AddEntryUpTo(today, typed, bound) ==
    /\ profile_saved(user_profile)
    /\ Len(daily_consumption) < bound
    /\ daily_consumption' =
           add_entry_handler(daily_consumption, today, typed,
               estimate(user_profile.facility,
                        user_profile.appliances).total_energy)
    /\ screen' = render(user_profile, daily_consumption')
    /\ UNCHANGED <<user_profile, args, ret>>

AddEntry(today, typed) == AddEntryUpTo(today, typed, MaxLog)

\* A run triggered by any other widget: the page is drawn again
Rerun ==
    /\ screen' = render(user_profile, daily_consumption)
    /\ UNCHANGED <<user_profile, daily_consumption, args, ret>>

\* two calendar dates, named by their order
Dates == {1, 2}

\* decimals typed into the number input, in tenths: none, 0.0 and 15.0
TypedInputs == {<<>>, <<0>>, <<150>>}

SessionProfiles ==
    { [facility |-> "2bhk", appliances |-> <<"AC", "Refrigerator">>],
      [facility |-> "1bhk", appliances |-> <<>>] }

InitSession ==
    /\ user_profile = <<>>
    /\ daily_consumption = <<>>
    /\ screen = info_screen

Init ==
    /\ InitSession
    /\ args = [fn |-> "script"]
    /\ ret = <<>>

Next ==
    \/ \E p \in SessionProfiles : SaveProfile(p.facility, p.appliances)
    \/ \E d \in Dates, t \in TypedInputs : AddEntry(d, t)
    \/ Rerun

Spec == Init /\ [][Next]_vars

----------------------------------------------------------------------------
(* A long session with one profile and the number input left alone: the    *)
(* log outgrows the RecentN rows of the recent-entries table.              *)

MaxLogRecent == 11

NextRecent ==
    \/ SaveProfile("2bhk", <<"AC", "Refrigerator">>)
    \/ \E d \in Dates : AddEntryUpTo(d, <<>>, MaxLogRecent)
    \/ Rerun

SpecRecent == Init /\ [][NextRecent]_vars

----------------------------------------------------------------------------
(* The profile form alone: every size with every selection of up to MaxSel *)
(* appliances, in the order the multiselect returns them (selection order, *)
(* no option twice).                                                       *)

MaxSel == 2

Sizes == {"1bhk", "2bhk", "3bhk", "4bhk"}

FormAppliances == {"AC", "Refrigerator", "Dishwasher", "TV", "Laptop"}

NoRepeat(l) == \A i, j \in 1..Len(l) : l[i] = l[j] => i = j

SeqsUpTo(S, n) == UNION { [1..k -> S] : k \in 0..n }

Selections == { l \in SeqsUpTo(FormAppliances, MaxSel) : NoRepeat(l) }

NextProfile == \E f \in Sizes, l \in Selections : SaveProfile(f, l)

SpecProfile == Init /\ [][NextProfile]_vars

----------------------------------------------------------------------------
(* The estimator run alone on arbitrary arguments: sizes and appliance     *)
(* names outside the tables, repeated names, any order.                    *)

MaxLen == 3

SizeInputs == Sizes \cup {"5bhk"}

ApplianceInputs == FormAppliances \cup {"Heater"}

InitEstimate ==
    /\ InitSession
    /\ args \in { [fn |-> "estimate", facility_type |-> f, appliances |-> l] :
                  f \in SizeInputs, l \in SeqsUpTo(ApplianceInputs, MaxLen) }
    /\ ret = <<>>

\* lines 135-137 on the arguments
CallEstimate ==
    /\ args.fn = "estimate"
    /\ ret = <<>>
    /\ ret' = << estimate(args.facility_type, args.appliances) >>
    /\ UNCHANGED <<user_profile, daily_consumption, screen, args>>

SpecEstimate == InitEstimate /\ [][CallEstimate]_vars

----------------------------------------------------------------------------
(* The tip advisor run alone on the decimals -NegTip/100 .. MaxTip/100.    *)

MaxTip == 1100
NegTip == 50

\* the float of the decimal n / 100
Hundredths(n) == IF n < 0 THEN FNeg(Lit(-n, 2)) ELSE Lit(n, 2)

InitTips ==
    /\ InitSession
    /\ args \in { [fn |-> "get_energy_tips", literal |-> n,
                   total_consumption |-> Hundredths(n)] : n \in -NegTip..MaxTip }
    /\ ret = <<>>

CallTips ==
    /\ args.fn = "get_energy_tips"
    /\ ret = <<>>
    /\ ret' = << get_energy_tips(args.total_consumption) >>
    /\ UNCHANGED <<user_profile, daily_consumption, screen, args>>

SpecTips == InitTips /\ [][CallTips]_vars

----------------------------------------------------------------------------
(* The documented tables, in tenths of a kWh, and helpers of the claims.   *)

DocBaseTenths(size) ==
    CASE size = "1bhk" -> 24 [] size = "2bhk" -> 36 [] size = "3bhk" -> 48
      [] size = "4bhk" -> 60 [] OTHER -> 0

DocApplianceTenths(kind) ==
    CASE kind = "AC" -> 30 [] kind = "Refrigerator" -> 15
      [] kind = "Washing Machine" -> 20 [] kind = "Dishwasher" -> 18
      [] kind = "Water Heater" -> 25 [] kind = "Microwave" -> 12
      [] kind = "TV" -> 5 [] kind = "Laptop" -> 3 [] OTHER -> 0

KnownAppliances ==
    {"AC", "Refrigerator", "Washing Machine", "Dishwasher", "Water Heater",
     "Microwave", "TV", "Laptop"}

RECURSIVE DocSumTenths(_)
DocSumTenths(l) ==
    IF l = <<>> THEN 0 ELSE DocApplianceTenths(Head(l)) + DocSumTenths(Tail(l))

\* the arrangements of the list l
Arrangements(l) ==
    { [i \in 1..Len(l) |-> l[p[i]]] :
        p \in { q \in [1..Len(l) -> 1..Len(l)] :
                  \A i, j \in 1..Len(l) : q[i] = q[j] => i = j } }

\* l with only the first occurrence of every kind
RECURSIVE FirstOccurrences(_)
FirstOccurrences(l) ==
    IF l = <<>> THEN <<>>
    ELSE LET front == FirstOccurrences(SubSeq(l, 1, Len(l) - 1))
         IN  IF \E i \in 1..(Len(l) - 1) : l[i] = l[Len(l)] THEN front
             ELSE Append(front, l[Len(l)])

\* x is a number: zero, or a sign, a mantissa of MantBits bits and an exponent
IsFloat(x) ==
    /\ x.sign \in {0, 1}
    /\ x.exp \in Int
    /\ BBitLen(x.mant) \in {0, MantBits}

IsKnown(kind) == kind \in KnownAppliances

EstimateReturned == args.fn = "estimate" /\ ret # <<>>

----------------------------------------------------------------------------
(* C1: for every size and every collection of appliances, the appliance    *)
(* energy counts each kind at most once: a kind that appears two or more   *)
(* times adds what it adds when it appears once.                           *)
C1_EachKindCountedOnce ==
    EstimateReturned =>
        ret[1].appliance_energy =
            calculate_appliance_energy(FirstOccurrences(args.appliances))

C7_TipThresholds ==
    /\ (args.fn = "get_energy_tips" /\ ret = <<>>) =>
           get_energy_tips(args.total_consumption) \in {"High", "Moderate", "Great"}
    /\ (args.fn = "get_energy_tips" /\ ret # <<>>) =>
        /\ ret[1] \in {"High", "Moderate", "Great"}
        /\ ret[1] = "High" <=> args.literal > 1000
        /\ ret[1] = "Moderate" <=> (600 < args.literal /\ args.literal <= 1000)
        /\ ret[1] = "Great" <=> args.literal <= 600

\* the boundary 6.01 has been answered
C7_Witness ==
    /\ args.fn = "get_energy_tips"
    /\ args.literal = 601
    /\ ret = <<"Moderate">>

----------------------------------------------------------------------------
(* Claims about the session.                                               *)

Log == daily_consumption

\* the total estimate of the profile that is saved now
SavedTotal ==
    estimate(user_profile.facility, user_profile.appliances).total_energy

\* the actual values of the whole log, added left to right from k down
RECURSIVE ActualSum(_)
ActualSum(k) == IF k = 0 THEN FZero ELSE FAdd(ActualSum(k - 1), Log[k].actual)

(* C3: the log is append-only: a step that changes it adds exactly one     *)
(* entry, at the end, and leaves every earlier entry where it was with its *)
(* four fields; a step that changes the profile leaves the log as it was;  *)
(* the length never decreases.                                             *)
C3_AppendOnly ==
    [][ /\ Len(Log') >= Len(Log)
        /\ Len(Log') <= Len(Log) + 1
        /\ \A i \in 1..Len(Log) :
              /\ Log'[i].date = Log[i].date
              /\ Log'[i].estimated = Log[i].estimated
              /\ Log'[i].actual = Log[i].actual
              /\ Log'[i].difference = Log[i].difference
        /\ (Len(Log') = Len(Log)) => (Log' = Log)
        /\ (Log' # Log) => (user_profile' = user_profile) ]_vars

\* two entries estimated under different profiles: a profile was saved
\* between two additions
C3_Witness ==
    /\ Len(Log) >= 2
    /\ Log[1].estimated # Log[2].estimated

(* C4: the entry an add-entry step appends has the supplied date, the      *)
(* supplied actual value, estimated = the total estimate of the profile    *)
(* saved at that moment, and difference = actual - estimated; every entry  *)
(* of the log keeps difference = actual - estimated.                       *)
C4_EntryFields ==
    /\ [](\A i \in 1..Len(Log) :
              Log[i].difference = FSub(Log[i].actual, Log[i].estimated))
    /\ [][ Len(Log') = Len(Log) + 1 =>
             /\ Log'[Len(Log')].estimated = SavedTotal
             /\ Log'[Len(Log')].date \in Dates
             /\ \E t \in TypedInputs :
                    Log'[Len(Log')].actual = number_input(t, SavedTotal)
             /\ Log'[Len(Log')].difference =
                    FSub(Log'[Len(Log')].actual, SavedTotal) ]_vars

\* an entry with actual = 0 (below its estimate) and one with 15.0 (above)
C4_Witness ==
    \E i, j \in 1..Len(Log) :
        /\ Log[i].actual = FZero
        /\ Log[i].difference.sign = 1
        /\ Log[j].actual = Lit(150, 1)
        /\ Log[j].difference.sign = 0
        /\ ~FIsZero(Log[j].difference)

(* C5: statistics are shown exactly when the log holds at least 2 entries; *)
(* with 0 or 1 entries there are none (not zeros); when shown, the maximum *)
(* and minimum are the largest and smallest actual value of the whole log  *)
(* and the average is the sum of all actual values divided by their number.*)
C5_Statistics ==
    /\ screen.stats # <<>> <=> Len(Log) >= 2
    /\ Len(screen.stats) <= 1
    /\ screen.stats # <<>> =>
        LET st == screen.stats[1]
        IN  /\ \E i \in 1..Len(Log) : st.max_consumption = Log[i].actual
            /\ \A i \in 1..Len(Log) : ~FGt(Log[i].actual, st.max_consumption)
            /\ \E i \in 1..Len(Log) : st.min_consumption = Log[i].actual
            /\ \A i \in 1..Len(Log) : ~FGt(st.min_consumption, Log[i].actual)
            /\ Len(Log) < 8 =>
                   st.avg_consumption = FDivInt(ActualSum(Len(Log)), Len(Log))
            /\ ~FGt(st.avg_consumption, st.max_consumption)
            /\ ~FGt(st.min_consumption, st.avg_consumption)

\* statistics of a log whose actual values differ
C5_Witness ==
    /\ Len(Log) >= 2
    /\ screen.stats # <<>>
    /\ FGt(screen.stats[1].max_consumption, screen.stats[1].avg_consumption)
    /\ FGt(screen.stats[1].avg_consumption, screen.stats[1].min_consumption)

(* C6: the series handed to the trend chart has one (date, estimated,      *)
(* actual) point per log entry and is sorted by date ascending.            *)
C6_ChartSortedByDate ==
    (screen.main /\ Log # <<>>) =>
        /\ Len(screen.chart) = Len(Log)
        /\ \A i \in 1..Len(Log) :
              \E k \in 1..Len(screen.chart) :
                  /\ screen.chart[k].date = Log[i].date
                  /\ screen.chart[k].estimated = Log[i].estimated
                  /\ screen.chart[k].actual = Log[i].actual
        /\ \A i, j \in 1..Len(screen.chart) :
              i < j => screen.chart[i].date <= screen.chart[j].date

(* C8: the recent-entries table holds exactly the last RecentN entries of  *)
(* the log by insertion order (all of them when there are fewer), sorted   *)
(* by date descending; an older entry is not shown even when its date is   *)
(* later than the dates shown.                                             *)
C8_RecentEntries ==
    (screen.main /\ Log # <<>>) =>
        LET n == Min2(RecentN, Len(Log))
        IN  /\ Len(screen.recent_df) = n
            /\ { screen.recent_df[k].index : k \in 1..n }
                   = (Len(Log) - n)..(Len(Log) - 1)
            /\ \A k \in 1..n :
                  LET row == screen.recent_df[k]
                  IN  /\ row.date = Log[row.index + 1].date
                      /\ row.estimated = Log[row.index + 1].estimated
                      /\ row.actual = Log[row.index + 1].actual
                      /\ row.difference = Log[row.index + 1].difference
            /\ \A i, j \in 1..n :
                  i < j => screen.recent_df[i].date >= screen.recent_df[j].date

\* more than RecentN entries; the oldest has the later date and is not shown
\* although rows of the earlier date are
C8_Witness ==
    /\ Len(Log) > RecentN
    /\ Log[1].date = 2
    /\ \A k \in 1..Len(screen.recent_df) : screen.recent_df[k].index # 0
    /\ \E k \in 1..Len(screen.recent_df) : screen.recent_df[k].date = 1
    /\ \E k \in 1..Len(screen.recent_df) : screen.recent_df[k].date = 2

IsScenarioProfile ==
    /\ profile_saved(user_profile)
    /\ user_profile.facility = "2bhk"
    /\ user_profile.appliances \in
           {<<"AC", "Refrigerator">>, <<"Refrigerator", "AC">>}

C10_ProfileStaysSaved ==
    /\ (~profile_saved(user_profile) /\ Log = <<>> /\ ~screen.main)
    /\ [](Log # <<>> => profile_saved(user_profile))
    /\ [](profile_saved(user_profile) <=> screen.main)
    /\ [][profile_saved(user_profile) => profile_saved(user_profile')]_vars

\* entries logged, then another profile saved: the log is kept and the
\* profile is still there
C10_Witness ==
    /\ Log # <<>>
    /\ profile_saved(user_profile)
    /\ Log[Len(Log)].estimated # SavedTotal

====
